---- MODULE Spec2Model ----
(***************************************************************************)
(* A model of SpawnedWorkerExecutorCluster                                 *)
(* (golem-test-framework/src/components/worker_executor_cluster/spawned.rs)*)
(*                                                                         *)
(* The cluster owns a vector of worker executors and a mutex-guarded set   *)
(* of stopped indices.  Callers (threads / tasks sharing the cluster) run  *)
(* stop, start, kill_all, restart_all, stopped_indices and started_indices;*)
(* every statement that takes the mutex, calls a member or awaits is one   *)
(* step, so that calls of different callers interleave as they do in the   *)
(* program.  The members themselves (SpawnedWorkerExecutor) are not part   *)
(* of the sources at hand; their kill and restart follow the design notes. *)
(***************************************************************************)
EXTENDS Integers, FiniteSets, Sequences, TLC

\* ----------------------------------------------------------------- bounds

\* The largest cluster size passed to new().
MaxSize == 2

\* How many processes a member may have been given before start / restart_all
\* are no longer called (the spawn counters are otherwise unbounded).
MaxSpawns == 2

\* ------------------------------------------------------------ inputs of new

BaseHttpPort == 9000

BaseGrpcPort == 9100

\* The callers of the sequential and of the concurrent specification.
SeqCallers == {"t1"}

ConcCallers == {"t1", "t2"}

VARIABLES
    size,       \* worker_executors.len()
    child,      \* child[i]: member i's process handle (Option<Child>) and process
    spawned,    \* spawned[i]: processes launched for member i so far
    signals,    \* signals[i]: termination signals sent to member i's processes
    stopped,    \* the HashSet behind stopped_indices
    lock,       \* who holds the mutex of stopped_indices ("free" when nobody)
    poisoned,   \* the mutex is poisoned (a holder panicked)
    dropped,    \* the cluster has been dropped
    pc,         \* pc[c]: where caller c is in its current call
    op,         \* op[c]: the call caller c runs, or ran last
    arg,        \* arg[c]: its index argument
    k,          \* k[c]: position of the loop of kill_all / restart_all
    ret,        \* ret[c]: how the call ended ("none" while it runs)
    prev,       \* prev[c]: the call c completed before the current one
    ctor,       \* SpawnedWorkerExecutorCluster::new: its arguments, loop and vector
    lin,        \* the state a set of concurrent calls started from
    svc,        \* the SpawnedWorkerService and its construction
    api         \* the API-definition endpoint and the service behind it

vars == <<size, child, spawned, signals, stopped, lock, poisoned, dropped,
          pc, op, arg, k, ret, prev, ctor, lin, svc, api>>

\* What the calls on a constructed cluster leave alone.
clusterFrame == <<ctor, lin, svc, api>>

memberVars == <<child, spawned, signals>>

Callers == DOMAIN pc

Members == 0 .. (size - 1)

\* The indices callers pass: every valid one, and size itself, which is out of range.
Indices == 0 .. size

InRange(index) == index < size

\* ---------------------------------------------------------------- members

\* u16 arithmetic: `i as u16` truncates, and an addition either wraps (overflow
\* checks off, release builds) or panics (overflow checks on, debug builds).
AsU16(i) == i % 65536

WrappingAddU16(a, b) == (a + b) % 65536

OverflowsU16(a, b) == a + b > 65535

\* let http_port = base_http_port + i as u16;
NewHttpPort(base_http_port, i) == WrappingAddU16(base_http_port, AsU16(i))

\* let grpc_port = base_grpc_port + i as u16;
NewGrpcPort(base_grpc_port, i) == WrappingAddU16(base_grpc_port, AsU16(i))

\* The ports of member i: those its worker executor was constructed with.
HttpPort(i) == ctor.worker_executors[i + 1].http_port

GrpcPort(i) == ctor.worker_executors[i + 1].grpc_port

\* Option<Child>::None
None == [some |-> FALSE, http |-> 0, grpc |-> 0, ready |-> FALSE]

\* A process launched by member i, listening on the member's ports.
Launched(i, isReady) ==
    [some |-> TRUE, http |-> HttpPort(i), grpc |-> GrpcPort(i), ready |-> isReady]

\* kill: the handle is taken; a handle already taken makes it a silent no-op.
KillChild(ch) == None

KillSignals(ch) == IF ch.some THEN 1 ELSE 0

\* restart, up to the readiness wait: kill, then a fresh spawn on the same ports.
RestartChild(i, ch) == Launched(i, FALSE)

\* restart, readiness reached.
ReadyChild(ch) == [ch EXCEPT !.ready = ch.some]

\* wait_for_startup either succeeds or runs into its timeout.
StartupOutcomes == {"ok", "StartupTimeout"}

\* ------------------------------------------------------------------- views

\* stopped_indices(): the set, copied out under the lock.
StoppedIndices == stopped

\* started_indices() that forgets to take the stopped indices out.
StartedIndices_NoDifference == 0 .. (size - 1)

\* started_indices(): all_indices.difference(&stopped_indices)
StartedIndices == (0 .. (size - 1)) \ stopped

\* ------------------------------------------------------------------- state

NoCall == [op |-> "none", arg |-> 0, ret |-> "none"]

\* new() has returned a cluster of n members built from the given base ports.
Constructed(n, base_http_port, base_grpc_port, checks) ==
    [pc |-> "done", size |-> n,
     base_http_port |-> base_http_port, base_grpc_port |-> base_grpc_port,
     overflow_checks |-> checks, i |-> n,
     worker_executors |->
        [j \in 1 .. n |-> [http_port |-> NewHttpPort(base_http_port, j - 1),
                           grpc_port |-> NewGrpcPort(base_grpc_port, j - 1)]]]

\* No set of concurrent calls is on record.
NoLin == [taken |-> FALSE]

\* No worker service is under consideration.
NoSvc == [pc |-> "none"]

\* No API endpoint is under consideration.
NoApi == [pc |-> "none"]

InitWith(callers) ==
    /\ size \in 0 .. MaxSize
    /\ ctor = Constructed(size, BaseHttpPort, BaseGrpcPort, TRUE)
    /\ lin = NoLin
    /\ svc = NoSvc
    /\ api = NoApi
    /\ child = [i \in 0 .. (size - 1) |-> Launched(i, TRUE)]
    /\ spawned = [i \in 0 .. (size - 1) |-> 1]
    /\ signals = [i \in 0 .. (size - 1) |-> 0]
    /\ stopped = {}
    /\ lock = "free"
    /\ poisoned = FALSE
    /\ dropped = FALSE
    /\ pc = [c \in callers |-> "idle"]
    /\ op = [c \in callers |-> "none"]
    /\ arg = [c \in callers |-> 0]
    /\ k = [c \in callers |-> 0]
    /\ ret = [c \in callers |-> "none"]
    /\ prev = [c \in callers |-> NoCall]

Init == InitWith(SeqCallers)

InitConc == InitWith(ConcCallers)

Ops == {"stop", "start", "kill_all", "restart_all", "stopped_indices", "started_indices"}

EntryPc(o) ==
    CASE o = "stop" -> "stop_lock"
      [] o = "start" -> "start_check"
      [] o = "kill_all" -> "kill_all"
      [] o = "restart_all" -> "restart_all"
      [] o = "stopped_indices" -> "stopped_indices"
      [] o = "started_indices" -> "started_indices"

\* The call may still launch a process within the bound on spawns.
MaySpawn(o, index) ==
    CASE o = "start" -> InRange(index) => spawned[index] < MaxSpawns
      [] o = "restart_all" -> \A i \in Members : spawned[i] < MaxSpawns
      [] OTHER -> TRUE

\* What a caller ran last is on record where calls run one after another (one
\* caller); the cluster itself keeps nothing of a call that has returned.
KeepsHistory == Cardinality(Callers) = 1 \/ lin.taken

\* Caller c ends its call with result r.
Return(c, r) ==
    /\ pc' = [pc EXCEPT ![c] = "idle"]
    /\ ret' = [ret EXCEPT ![c] = IF KeepsHistory THEN r ELSE "none"]
    /\ op' = [op EXCEPT ![c] = IF KeepsHistory THEN @ ELSE "none"]
    /\ arg' = [arg EXCEPT ![c] = IF KeepsHistory THEN @ ELSE 0]

\* Caller c invokes operation o with index argument index.
Call(c, o, index) ==
    /\ pc[c] = "idle"
    /\ ~dropped
    /\ MaySpawn(o, index)
    /\ pc' = [pc EXCEPT ![c] = EntryPc(o)]
    /\ op' = [op EXCEPT ![c] = o]
    /\ arg' = [arg EXCEPT ![c] = IF o \in {"stop", "start"} THEN index ELSE 0]
    /\ k' = [k EXCEPT ![c] = 0]
    /\ ret' = [ret EXCEPT ![c] = "none"]
    /\ prev' = IF KeepsHistory
               THEN [prev EXCEPT ![c] = [op |-> op[c], arg |-> arg[c], ret |-> ret[c]]]
               ELSE prev
    /\ UNCHANGED <<size, memberVars, stopped, lock, poisoned, dropped>>

\* ------------------------------------------------------------------- stop

\* stop without its contains() check: it goes on to the kill whatever stopped holds.
StopLock_NoContains(c) ==
    /\ pc[c] = "stop_lock"
    /\ lock = "free"
    /\ IF poisoned
       THEN /\ Return(c, "PoisonError")
            /\ UNCHANGED lock
       ELSE /\ lock' = c
            /\ pc' = [pc EXCEPT ![c] = "stop_kill"]
            /\ UNCHANGED <<op, arg, ret>>
    /\ UNCHANGED <<size, memberVars, stopped, poisoned, dropped, k, prev>>

\* let mut stopped = self.stopped_indices.lock().unwrap();
\* if !stopped.contains(&index) { ... }
StopLock(c) ==
    /\ pc[c] = "stop_lock"
    /\ lock = "free"
    /\ IF poisoned
       THEN /\ Return(c, "PoisonError")
            /\ UNCHANGED lock
       ELSE IF arg[c] \in stopped
       THEN /\ Return(c, "ok")
            /\ UNCHANGED lock
       ELSE /\ lock' = c
            /\ pc' = [pc EXCEPT ![c] = "stop_kill"]
            /\ UNCHANGED <<op, arg, ret>>
    /\ UNCHANGED <<size, memberVars, stopped, poisoned, dropped, k, prev>>

\* A stop that records the index without killing the member.
StopKill_NoKill(c) ==
    /\ pc[c] = "stop_kill"
    /\ pc' = [pc EXCEPT ![c] = "stop_insert"]
    /\ UNCHANGED <<child, signals, lock, poisoned, op, arg, ret>>
    /\ UNCHANGED <<size, spawned, stopped, dropped, k, prev>>

\* self.worker_executors[index].kill();   (the guard is alive: the lock is held)
StopKill(c) ==
    /\ pc[c] = "stop_kill"
    /\ IF InRange(arg[c])
       THEN /\ child' = [child EXCEPT ![arg[c]] = KillChild(child[arg[c]])]
            /\ signals' = [signals EXCEPT ![arg[c]] = @ + KillSignals(child[arg[c]])]
            /\ pc' = [pc EXCEPT ![c] = "stop_insert"]
            /\ UNCHANGED <<lock, poisoned, op, arg, ret>>
       ELSE \* index out of bounds: the panic unwinds through the guard
            /\ Return(c, "IndexOutOfBounds")
            /\ poisoned' = TRUE
            /\ lock' = "free"
            /\ UNCHANGED <<child, signals>>
    /\ UNCHANGED <<size, spawned, stopped, dropped, k, prev>>

\* A stop that writes back a set holding only its own index.
StopInsert_Overwrite(c) ==
    /\ pc[c] = "stop_insert"
    /\ stopped' = {arg[c]}
    /\ lock' = "free"
    /\ Return(c, "ok")
    /\ UNCHANGED <<size, memberVars, poisoned, dropped, k, prev>>

\* stopped.insert(index);   and the guard is dropped at the end of stop
StopInsert(c) ==
    /\ pc[c] = "stop_insert"
    /\ stopped' = stopped \cup {arg[c]}
    /\ lock' = "free"
    /\ Return(c, "ok")
    /\ UNCHANGED <<size, memberVars, poisoned, dropped, k, prev>>

\* ------------------------------------------------------------------ start

\* start without its contains() check: it restarts whatever stopped holds.
StartCheck_Always(c) ==
    /\ pc[c] = "start_check"
    /\ lock = "free"
    /\ IF poisoned
       THEN Return(c, "PoisonError")
       ELSE /\ pc' = [pc EXCEPT ![c] = "start_restart"]
            /\ UNCHANGED <<op, arg, ret>>
    /\ UNCHANGED <<size, memberVars, stopped, lock, poisoned, dropped, k, prev>>

\* start that keeps the guard of its membership check alive across the restart.
StartCheck_KeepLock(c) ==
    /\ pc[c] = "start_check"
    /\ lock = "free"
    /\ IF poisoned
       THEN /\ Return(c, "PoisonError")
            /\ UNCHANGED lock
       ELSE IF arg[c] \in StoppedIndices
       THEN /\ pc' = [pc EXCEPT ![c] = "start_restart"]
            /\ lock' = c
            /\ UNCHANGED <<op, arg, ret>>
       ELSE /\ Return(c, "ok")
            /\ UNCHANGED lock
    /\ UNCHANGED <<size, memberVars, stopped, poisoned, dropped, k, prev>>

\* if self.stopped_indices().contains(&index) { ... }
\* (stopped_indices() takes the lock, copies the set and releases the lock)
StartCheck(c) ==
    /\ pc[c] = "start_check"
    /\ lock = "free"
    /\ IF poisoned
       THEN Return(c, "PoisonError")
       ELSE IF arg[c] \in StoppedIndices
       THEN /\ pc' = [pc EXCEPT ![c] = "start_restart"]
            /\ UNCHANGED <<op, arg, ret>>
       ELSE Return(c, "ok")
    /\ UNCHANGED <<size, memberVars, stopped, lock, poisoned, dropped, k, prev>>

\* start that takes the index out of stopped before the restart has succeeded.
StartRestart_RemoveFirst(c) ==
    /\ pc[c] = "start_restart"
    /\ IF InRange(arg[c])
       THEN /\ child' = [child EXCEPT ![arg[c]] = RestartChild(arg[c], child[arg[c]])]
            /\ signals' = [signals EXCEPT ![arg[c]] = @ + KillSignals(child[arg[c]])]
            /\ spawned' = [spawned EXCEPT ![arg[c]] = @ + 1]
            /\ stopped' = stopped \ {arg[c]}
            /\ pc' = [pc EXCEPT ![c] = "start_wait"]
            /\ UNCHANGED <<op, arg, ret>>
       ELSE /\ Return(c, "IndexOutOfBounds")
            /\ UNCHANGED <<memberVars, stopped>>
    /\ UNCHANGED <<size, lock, poisoned, dropped, k, prev>>

\* self.worker_executors[index].restart()   up to its readiness wait
StartRestart(c) ==
    /\ pc[c] = "start_restart"
    /\ IF InRange(arg[c])
       THEN /\ child' = [child EXCEPT ![arg[c]] = RestartChild(arg[c], child[arg[c]])]
            /\ signals' = [signals EXCEPT ![arg[c]] = @ + KillSignals(child[arg[c]])]
            /\ spawned' = [spawned EXCEPT ![arg[c]] = @ + 1]
            /\ pc' = [pc EXCEPT ![c] = "start_wait"]
            /\ UNCHANGED <<op, arg, ret>>
       ELSE /\ Return(c, "IndexOutOfBounds")
            /\ UNCHANGED memberVars
    /\ UNCHANGED <<size, stopped, lock, poisoned, dropped, k, prev>>

\* .await of the restart: readiness is reached, or the wait times out and panics
StartWait(c) ==
    /\ pc[c] = "start_wait"
    /\ \E outcome \in StartupOutcomes :
        IF outcome = "ok"
        THEN /\ child' = [child EXCEPT ![arg[c]] = ReadyChild(child[arg[c]])]
             /\ pc' = [pc EXCEPT ![c] = "start_remove"]
             /\ UNCHANGED <<op, arg, ret>>
        ELSE /\ Return(c, outcome)
             /\ UNCHANGED child
    /\ UNCHANGED <<size, spawned, signals, stopped, lock, poisoned, dropped,
                   k, prev>>

\* start that never takes the index out of stopped.
StartRemove_Keep(c) ==
    /\ pc[c] = "start_remove"
    /\ lock = "free"
    /\ Return(c, IF poisoned THEN "PoisonError" ELSE "ok")
    /\ UNCHANGED <<size, memberVars, stopped, lock, poisoned, dropped, k, prev>>

\* self.stopped_indices.lock().unwrap().remove(&index);
StartRemove(c) ==
    /\ pc[c] = "start_remove"
    /\ lock = "free"
    /\ IF poisoned
       THEN /\ Return(c, "PoisonError")
            /\ UNCHANGED stopped
       ELSE /\ stopped' = stopped \ {arg[c]}
            /\ Return(c, "ok")
    /\ UNCHANGED <<size, memberVars, lock, poisoned, dropped, k, prev>>

\* --------------------------------------------------------------- kill_all

\* kill_all that passes over the members recorded in stopped.
KillAllStep_SkipStopped(c) ==
    /\ pc[c] = "kill_all"
    /\ k[c] < size
    /\ child' = [child EXCEPT ![k[c]] = IF k[c] \in stopped THEN @ ELSE KillChild(@)]
    /\ signals' = [signals EXCEPT ![k[c]] =
                      IF k[c] \in stopped THEN @ ELSE @ + KillSignals(child[k[c]])]
    /\ k' = [k EXCEPT ![c] = @ + 1]
    /\ UNCHANGED <<size, spawned, stopped, lock, poisoned, dropped, pc, op, arg, ret, prev>>

\* for worker_executor in &self.worker_executors { worker_executor.kill(); }
KillAllStep(c) ==
    /\ pc[c] = "kill_all"
    /\ k[c] < size
    /\ child' = [child EXCEPT ![k[c]] = KillChild(child[k[c]])]
    /\ signals' = [signals EXCEPT ![k[c]] = @ + KillSignals(child[k[c]])]
    /\ k' = [k EXCEPT ![c] = @ + 1]
    /\ UNCHANGED <<size, spawned, stopped, lock, poisoned, dropped, pc, op, arg, ret, prev>>

KillAllReturn(c) ==
    /\ pc[c] = "kill_all"
    /\ k[c] >= size
    /\ Return(c, "ok")
    /\ UNCHANGED <<size, memberVars, stopped, lock, poisoned, dropped, k, prev>>

\* ------------------------------------------------------------ restart_all

\* for worker_executor in &self.worker_executors { worker_executor.restart() ...
RestartAllStep(c) ==
    /\ pc[c] = "restart_all"
    /\ k[c] < size
    /\ child' = [child EXCEPT ![k[c]] = RestartChild(k[c], child[k[c]])]
    /\ signals' = [signals EXCEPT ![k[c]] = @ + KillSignals(child[k[c]])]
    /\ spawned' = [spawned EXCEPT ![k[c]] = @ + 1]
    /\ pc' = [pc EXCEPT ![c] = "restart_all_wait"]
    /\ UNCHANGED <<size, stopped, lock, poisoned, dropped, op, arg, k, ret, prev>>

\* ... .await; }
RestartAllWait(c) ==
    /\ pc[c] = "restart_all_wait"
    /\ \E outcome \in StartupOutcomes :
        IF outcome = "ok"
        THEN /\ child' = [child EXCEPT ![k[c]] = ReadyChild(child[k[c]])]
             /\ k' = [k EXCEPT ![c] = @ + 1]
             /\ pc' = [pc EXCEPT ![c] = "restart_all"]
             /\ UNCHANGED <<op, arg, ret>>
        ELSE /\ Return(c, outcome)
             /\ UNCHANGED <<child, k>>
    /\ UNCHANGED <<size, spawned, signals, stopped, lock, poisoned, dropped, prev>>

RestartAllReturn(c) ==
    /\ pc[c] = "restart_all"
    /\ k[c] >= size
    /\ Return(c, "ok")
    /\ UNCHANGED <<size, memberVars, stopped, lock, poisoned, dropped, k, prev>>

\* ------------------------------------------------------------------ views

\* self.stopped_indices.lock().unwrap().iter().copied().collect()
StoppedIndicesCall(c) ==
    /\ pc[c] = "stopped_indices"
    /\ lock = "free"
    /\ Return(c, IF poisoned THEN "PoisonError" ELSE "ok")
    /\ UNCHANGED <<size, memberVars, stopped, lock, poisoned, dropped, k, prev>>

\* let stopped_indices = self.stopped_indices.lock().unwrap(); difference ...
StartedIndicesCall(c) ==
    /\ pc[c] = "started_indices"
    /\ lock = "free"
    /\ Return(c, IF poisoned THEN "PoisonError" ELSE "ok")
    /\ UNCHANGED <<size, memberVars, stopped, lock, poisoned, dropped, k, prev>>

\* ------------------------------------------------------------------- drop

\* A drop that kills only the members it believes are started.
DropKills_StartedOnly == StartedIndices

\* The members drop() kills: kill_all() goes over every worker executor.
DropKills == Members

\* impl Drop: self.kill_all().  drop has the cluster to itself (&mut self).
Drop ==
    /\ ~dropped
    /\ \A c \in Callers : pc[c] = "idle"
    /\ child' = [i \in Members |-> IF i \in DropKills THEN KillChild(child[i]) ELSE child[i]]
    /\ signals' = [i \in Members |->
                     signals[i] + (IF i \in DropKills THEN KillSignals(child[i]) ELSE 0)]
    /\ dropped' = TRUE
    /\ UNCHANGED <<size, spawned, stopped, lock, poisoned, pc, op, arg, k, ret, prev>>

\* ------------------------------------------------------------------- next

Next ==
    \/ \E c \in Callers, o \in Ops, index \in Indices : Call(c, o, index) /\ UNCHANGED clusterFrame
    \/ \E c \in Callers : StopLock(c) /\ UNCHANGED clusterFrame
    \/ \E c \in Callers : StopKill(c) /\ UNCHANGED clusterFrame
    \/ \E c \in Callers : StopInsert(c) /\ UNCHANGED clusterFrame
    \/ \E c \in Callers : StartCheck(c) /\ UNCHANGED clusterFrame
    \/ \E c \in Callers : StartRestart(c) /\ UNCHANGED clusterFrame
    \/ \E c \in Callers : StartWait(c) /\ UNCHANGED clusterFrame
    \/ \E c \in Callers : StartRemove(c) /\ UNCHANGED clusterFrame
    \/ \E c \in Callers : KillAllStep(c) /\ UNCHANGED clusterFrame
    \/ \E c \in Callers : KillAllReturn(c) /\ UNCHANGED clusterFrame
    \/ \E c \in Callers : RestartAllStep(c) /\ UNCHANGED clusterFrame
    \/ \E c \in Callers : RestartAllWait(c) /\ UNCHANGED clusterFrame
    \/ \E c \in Callers : RestartAllReturn(c) /\ UNCHANGED clusterFrame
    \/ \E c \in Callers : StoppedIndicesCall(c) /\ UNCHANGED clusterFrame
    \/ \E c \in Callers : StartedIndicesCall(c) /\ UNCHANGED clusterFrame
    \/ Drop /\ UNCHANGED clusterFrame

\* One caller: calls run one after another.
Spec == Init /\ [][Next]_vars

\* The calls that take the lock: stop, start and the two views.
LockOps == {"stop", "start", "stopped_indices", "started_indices"}

NextConc ==
    \/ \E c \in Callers, o \in LockOps, index \in Indices : Call(c, o, index) /\ UNCHANGED clusterFrame
    \/ \E c \in Callers : StopLock(c) /\ UNCHANGED clusterFrame
    \/ \E c \in Callers : StopKill(c) /\ UNCHANGED clusterFrame
    \/ \E c \in Callers : StopInsert(c) /\ UNCHANGED clusterFrame
    \/ \E c \in Callers : StartCheck(c) /\ UNCHANGED clusterFrame
    \/ \E c \in Callers : StartRestart(c) /\ UNCHANGED clusterFrame
    \/ \E c \in Callers : StartWait(c) /\ UNCHANGED clusterFrame
    \/ \E c \in Callers : StartRemove(c) /\ UNCHANGED clusterFrame
    \/ \E c \in Callers : StoppedIndicesCall(c) /\ UNCHANGED clusterFrame
    \/ \E c \in Callers : StartedIndicesCall(c) /\ UNCHANGED clusterFrame

\* Two callers whose lock-taking calls interleave at every lock, member call
\* and await.
SpecConc == InitConc /\ [][NextConc]_vars

\* -------------------------------------------------------------------- new

\* The arguments new() is called with: every size up to the bound; base ports
\* that leave the two port ranges apart, base ports whose ranges overlap, and a
\* base port at the top of the 16-bit range, the last one with overflow checks
\* on and off (the other additions do not overflow, so the checks do not matter).
NewSizes == 0 .. MaxSize

BasePorts ==
    {<<BaseHttpPort, BaseGrpcPort, TRUE>>,
     <<BaseHttpPort, BaseHttpPort + 1, TRUE>>,
     <<65535, BaseGrpcPort, TRUE>>,
     <<65535, BaseGrpcPort, FALSE>>}

\* new() has been entered and nothing is built yet.
InitNew ==
    /\ ctor \in {[pc |-> "loop", size |-> n,
                  base_http_port |-> p[1], base_grpc_port |-> p[2],
                  overflow_checks |-> p[3], i |-> 0, worker_executors |-> <<>>] :
                    n \in NewSizes, p \in BasePorts}
    /\ lin = NoLin
    /\ svc = NoSvc
    /\ api = NoApi
    /\ size = 0
    /\ child = <<>>
    /\ spawned = <<>>
    /\ signals = <<>>
    /\ stopped = {}
    /\ lock = "free"
    /\ poisoned = FALSE
    /\ dropped = FALSE
    /\ pc = [c \in SeqCallers |-> "new"]
    /\ op = [c \in SeqCallers |-> "none"]
    /\ arg = [c \in SeqCallers |-> 0]
    /\ k = [c \in SeqCallers |-> 0]
    /\ ret = [c \in SeqCallers |-> "none"]
    /\ prev = [c \in SeqCallers |-> NoCall]

\* A loop that stops one member short of size.
NewLoopDone_OneShort == ctor.i + 1 >= ctor.size

\* for i in 0..size
NewLoopDone == ctor.i >= ctor.size

\* new() panics: the vector built so far is dropped, and with it its members,
\* whose processes are killed.
NewPanic(c, reason) ==
    /\ pc' = [pc EXCEPT ![c] = "new_failed"]
    /\ ret' = [ret EXCEPT ![c] = reason]
    /\ ctor' = [ctor EXCEPT !.pc = "panicked"]
    /\ child' = [j \in DOMAIN child |-> KillChild(child[j])]
    /\ signals' = [j \in DOMAIN child |-> signals[j] + KillSignals(child[j])]
    /\ UNCHANGED spawned

\* One round of the loop: the two ports, SpawnedWorkerExecutor::new(...).await,
\* worker_executors.push(worker_executor).
NewSpawn(c) ==
    /\ pc[c] = "new"
    /\ ~NewLoopDone
    /\ LET i == ctor.i
           http_port == NewHttpPort(ctor.base_http_port, i)
           grpc_port == NewGrpcPort(ctor.base_grpc_port, i)
           overflow == \/ OverflowsU16(ctor.base_http_port, AsU16(i))
                       \/ OverflowsU16(ctor.base_grpc_port, AsU16(i))
       IN  IF ctor.overflow_checks /\ overflow
           THEN NewPanic(c, "ArithmeticOverflow")
           ELSE \E outcome \in StartupOutcomes :
                   IF outcome = "ok"
                   THEN /\ ctor' = [ctor EXCEPT
                               !.i = i + 1,
                               !.worker_executors =
                                   Append(@, [http_port |-> http_port,
                                              grpc_port |-> grpc_port])]
                        /\ child' = [j \in 0 .. i |->
                                       IF j < i THEN child[j]
                                       ELSE [some |-> TRUE, http |-> http_port,
                                             grpc |-> grpc_port, ready |-> TRUE]]
                        /\ spawned' = [j \in 0 .. i |-> IF j < i THEN spawned[j] ELSE 1]
                        /\ signals' = [j \in 0 .. i |-> IF j < i THEN signals[j] ELSE 0]
                        /\ UNCHANGED <<pc, ret>>
                   ELSE NewPanic(c, outcome)
    /\ UNCHANGED <<size, stopped, lock, poisoned, dropped, op, arg, k, prev, lin, svc, api>>

\* Self { worker_executors, stopped_indices: Arc::new(Mutex::new(HashSet::new())) }
NewReturn(c) ==
    /\ pc[c] = "new"
    /\ NewLoopDone
    /\ size' = Len(ctor.worker_executors)
    /\ stopped' = {}
    /\ lock' = "free"
    /\ poisoned' = FALSE
    /\ ctor' = [ctor EXCEPT !.pc = "done"]
    /\ pc' = [pc EXCEPT ![c] = "idle"]
    /\ UNCHANGED <<memberVars, dropped, op, arg, k, ret, prev, lin, svc, api>>

\* The calls that act on the members.
MemberOps == {"stop", "start", "kill_all", "restart_all"}

NextNew ==
    \/ \E c \in Callers : NewSpawn(c)
    \/ \E c \in Callers : NewReturn(c)
    \/ \E c \in Callers, o \in MemberOps, index \in Indices : Call(c, o, index) /\ UNCHANGED clusterFrame
    \/ \E c \in Callers : StopLock(c) /\ UNCHANGED clusterFrame
    \/ \E c \in Callers : StopKill(c) /\ UNCHANGED clusterFrame
    \/ \E c \in Callers : StopInsert(c) /\ UNCHANGED clusterFrame
    \/ \E c \in Callers : StartCheck(c) /\ UNCHANGED clusterFrame
    \/ \E c \in Callers : StartRestart(c) /\ UNCHANGED clusterFrame
    \/ \E c \in Callers : StartWait(c) /\ UNCHANGED clusterFrame
    \/ \E c \in Callers : StartRemove(c) /\ UNCHANGED clusterFrame
    \/ \E c \in Callers : KillAllStep(c) /\ UNCHANGED clusterFrame
    \/ \E c \in Callers : KillAllReturn(c) /\ UNCHANGED clusterFrame
    \/ \E c \in Callers : RestartAllStep(c) /\ UNCHANGED clusterFrame
    \/ \E c \in Callers : RestartAllWait(c) /\ UNCHANGED clusterFrame
    \/ \E c \in Callers : RestartAllReturn(c) /\ UNCHANGED clusterFrame

\* One caller constructs a cluster from the arguments drawn and then uses it.
SpecNew == InitNew /\ [][NextNew]_vars

\* ------------------------------------------- calls run one after another
\* The cluster's calls as whole handlers, on a record st of what they read and
\* write: [stopped, child, spawned, signals].

\* How many calls have run on the cluster before the concurrent ones begin.
MaxPrefix == 3

\* The cluster as new() returns it, for n members.
FreshCluster(n) ==
    [stopped |-> {},
     child |-> [i \in 0 .. (n - 1) |-> Launched(i, TRUE)],
     spawned |-> [i \in 0 .. (n - 1) |-> 1],
     signals |-> [i \in 0 .. (n - 1) |-> 0]]

\* stop(index) for a valid index
SeqStop(st, index) ==
    IF index \in st.stopped
    THEN st
    ELSE [st EXCEPT !.child[index] = KillChild(@),
                    !.signals[index] = @ + KillSignals(st.child[index]),
                    !.stopped = @ \cup {index}]

\* start(index) for a valid index, its restart ending in the given outcome
SeqStart(st, index, outcome) ==
    IF index \notin st.stopped
    THEN st
    ELSE LET restarted ==
               [st EXCEPT !.child[index] = RestartChild(index, @),
                          !.signals[index] = @ + KillSignals(st.child[index]),
                          !.spawned[index] = @ + 1]
         IN  IF outcome = "ok"
             THEN [restarted EXCEPT !.child[index] = ReadyChild(@),
                                    !.stopped = @ \ {index}]
             ELSE restarted

\* kill_all()
SeqKillAll(st) ==
    [st EXCEPT !.child = [i \in DOMAIN st.child |-> KillChild(st.child[i])],
               !.signals = [i \in DOMAIN st.child |-> @[i] + KillSignals(st.child[i])]]

\* restart_all(), every restart reaching readiness
SeqRestartAll(st) ==
    [st EXCEPT !.child = [i \in DOMAIN st.child |->
                            ReadyChild(RestartChild(i, st.child[i]))],
               !.signals = [i \in DOMAIN st.child |-> @[i] + KillSignals(st.child[i])],
               !.spawned = [i \in DOMAIN st.child |-> @[i] + 1]]

\* The clusters of n members that at most depth calls, one after another, lead to.
RECURSIVE SeqReachable(_, _)
SeqReachable(n, depth) ==
    IF depth = 0
    THEN {FreshCluster(n)}
    ELSE LET earlier == SeqReachable(n, depth - 1)
         IN  earlier
             \cup {SeqStop(st, i) : st \in earlier, i \in 0 .. (n - 1)}
             \cup {SeqStart(st, i, o) : st \in earlier, i \in 0 .. (n - 1),
                                        o \in StartupOutcomes}
             \cup {SeqKillAll(st) : st \in earlier}
             \cup {SeqRestartAll(st) : st \in earlier}

\* Two callers are each about to run one stop or start, on different valid
\* indices, on a cluster that earlier calls have brought into some state.
InitLin ==
    /\ size \in 2 .. MaxSize
    /\ ctor = Constructed(size, BaseHttpPort, BaseGrpcPort, TRUE)
    /\ svc = NoSvc
    /\ api = NoApi
    /\ \E st \in SeqReachable(size, MaxPrefix) :
         /\ lin = [taken |-> TRUE, start |-> st]
         /\ stopped = st.stopped
         /\ child = st.child
         /\ spawned = st.spawned
         /\ signals = st.signals
    /\ lock = "free"
    /\ poisoned = FALSE
    /\ dropped = FALSE
    /\ op \in [ConcCallers -> {"stop", "start"}]
    /\ arg \in {f \in [ConcCallers -> 0 .. (size - 1)] :
                  \A c, d \in ConcCallers : c # d => f[c] # f[d]}
    /\ pc = [c \in ConcCallers |-> EntryPc(op[c])]
    /\ k = [c \in ConcCallers |-> 0]
    /\ ret = [c \in ConcCallers |-> "none"]
    /\ prev = [c \in ConcCallers |-> NoCall]

NextLin ==
    \/ \E c \in Callers : StopLock(c) /\ UNCHANGED clusterFrame
    \/ \E c \in Callers : StopKill(c) /\ UNCHANGED clusterFrame
    \/ \E c \in Callers : StopInsert(c) /\ UNCHANGED clusterFrame
    \/ \E c \in Callers : StartCheck(c) /\ UNCHANGED clusterFrame
    \/ \E c \in Callers : StartRestart(c) /\ UNCHANGED clusterFrame
    \/ \E c \in Callers : StartWait(c) /\ UNCHANGED clusterFrame
    \/ \E c \in Callers : StartRemove(c) /\ UNCHANGED clusterFrame

\* One stop or start per caller, interleaved at every lock, member call and await.
SpecLin == InitLin /\ [][NextLin]_vars

\* What the cluster holds now.
ClusterNow ==
    [stopped |-> stopped, child |-> child, spawned |-> spawned, signals |-> signals]

\* The call of caller c as a whole handler; a start's restart ends as it ended
\* for c.
SeqCall(st, c) ==
    IF op[c] = "stop"
    THEN SeqStop(st, arg[c])
    ELSE SeqStart(st, arg[c], IF ret[c] = "StartupTimeout" THEN ret[c] ELSE "ok")

\* --------------------------------------------------- SpawnedWorkerService
\* (golem-test-framework/src/components/worker_service/spawned.rs)

\* How many kill() and client() calls are made on one worker service.
MaxSvcCalls == 3

\* The tasks that share the worker service.
SvcCallers == {"a", "b"}

\* The cluster is not under consideration: an empty one nobody calls.
ParkedCluster ==
    /\ size = 0
    /\ ctor = Constructed(0, BaseHttpPort, BaseGrpcPort, TRUE)
    /\ lin = NoLin
    /\ child = <<>>
    /\ spawned = <<>>
    /\ signals = <<>>
    /\ stopped = {}
    /\ lock = "free"
    /\ poisoned = FALSE
    /\ dropped = FALSE
    /\ pc = [c \in SeqCallers |-> "idle"]
    /\ op = [c \in SeqCallers |-> "none"]
    /\ arg = [c \in SeqCallers |-> 0]
    /\ k = [c \in SeqCallers |-> 0]
    /\ ret = [c \in SeqCallers |-> "none"]
    /\ prev = [c \in SeqCallers |-> NoCall]

clusterVars == <<size, child, spawned, signals, stopped, lock, poisoned, dropped,
                 pc, op, arg, k, ret, prev, ctor, lin>>

\* new_base has been entered with an executable that exists or not and with
\* shared_client set or not.
\*   child:   "unset" before the launch, "local" while new_base owns the Child,
\*            "some" / "none" for the Option behind the mutex
\*   running: the launched process has not been sent a termination signal
\*   client:  0 for None, else the number of the client held
\*   created: clients constructed so far (they are numbered 1, 2, ...)
\*   steps:   the steps of new_base executed, in order
\*   got, cl: per caller, how its last call ended and the client it was given
InitSvc ==
    /\ ParkedCluster
    /\ api = NoApi
    /\ svc \in {[pc |-> "validate", exe_exists |-> e, shared_client |-> s,
                 steps |-> <<>>, error |-> "none",
                 child |-> "unset", launched |-> 0, running |-> FALSE, signals |-> 0,
                 logger |-> FALSE, ready |-> FALSE,
                 client |-> 0, created |-> 0, at_spawn |-> 0,
                 calls |-> 0, served |-> 0,
                 cpc |-> [c \in SvcCallers |-> "idle"],
                 got |-> [c \in SvcCallers |-> "none"],
                 cl |-> [c \in SvcCallers |-> 0]] :
                   e \in BOOLEAN, s \in BOOLEAN}

\* new_base panics with the given error after running the given step. Unwinding
\* drops the std::process::Child new_base holds (as a local, or already inside
\* the Arc<Mutex<Option<..>>> of the unfinished struct literal); dropping a Child
\* sends no signal, and no SpawnedWorkerService exists whose Drop could.
SvcPanic(step, error) ==
    svc' = [svc EXCEPT !.pc = "failed", !.error = error, !.steps = Append(@, step),
                       !.child = IF @ = "local" THEN "unset" ELSE @]

\* An executable check that lets a missing executable through.
SvcValidate_NoCheck ==
    /\ svc.pc = "validate"
    /\ svc' = [svc EXCEPT !.pc = "launch", !.steps = Append(@, "validate")]
    /\ UNCHANGED clusterVars /\ UNCHANGED api

\* if !executable.exists() { panic!(...) }
SvcValidate ==
    /\ svc.pc = "validate"
    /\ IF svc.exe_exists
       THEN svc' = [svc EXCEPT !.pc = "launch", !.steps = Append(@, "validate")]
       ELSE SvcPanic("validate", "ConfigurationError")
    /\ UNCHANGED clusterVars /\ UNCHANGED api

\* Command::new(executable)...spawn().expect("Failed to start golem-worker-service")
SvcLaunch ==
    /\ svc.pc = "launch"
    /\ \E outcome \in {"ok", "SpawnFailure"} :
         IF outcome = "ok" /\ svc.exe_exists
         THEN svc' = [svc EXCEPT !.pc = "attach", !.steps = Append(@, "launch"),
                                 !.child = "local", !.launched = @ + 1,
                                 !.running = TRUE]
         ELSE SvcPanic("launch", "SpawnFailure")
    /\ UNCHANGED clusterVars /\ UNCHANGED api

\* ChildProcessLogger::log_child_process("[workersvc]", out_level, err_level, &mut child)
SvcAttachLogger ==
    /\ svc.pc = "attach"
    /\ svc' = [svc EXCEPT !.pc = "wait", !.steps = Append(@, "attach"), !.logger = TRUE]
    /\ UNCHANGED clusterVars /\ UNCHANGED api

\* wait_for_startup("localhost", grpc_port, Duration::from_secs(90)).await
SvcWait ==
    /\ svc.pc = "wait"
    /\ \E outcome \in StartupOutcomes :
         IF outcome = "ok"
         THEN svc' = [svc EXCEPT !.pc = "build", !.steps = Append(@, "wait"),
                                 !.ready = TRUE]
         ELSE SvcPanic("wait", outcome)
    /\ UNCHANGED clusterVars /\ UNCHANGED api

\* new_client("localhost", grpc_port).await either yields a client or fails.
NewClientOutcomes == {"ok", "ClientConstructionError"}

\* Self { ..., child: Arc::new(Mutex::new(Some(child))), ...,
\*        client: if shared_client { Some(new_client(..).await.expect(..)) } else { None } }
SvcBuild ==
    /\ svc.pc = "build"
    /\ IF svc.shared_client
       THEN \E outcome \in NewClientOutcomes :
              IF outcome = "ok"
              THEN svc' = [svc EXCEPT !.pc = "constructed",
                                      !.steps = Append(@, "client"),
                                      !.child = "some",
                                      !.created = @ + 1, !.client = svc.created + 1,
                                      !.at_spawn = @ + 1]
              ELSE SvcPanic("client", outcome)
       ELSE svc' = [svc EXCEPT !.pc = "constructed", !.child = "some", !.client = 0]
    /\ UNCHANGED clusterVars /\ UNCHANGED api

\* A caller may begin a call: the service exists, the caller is idle, and the
\* bound on calls is not used up.
SvcMayCall(c) ==
    /\ svc.pc = "constructed"
    /\ svc.cpc[c] = "idle"
    /\ svc.calls < MaxSvcCalls

\* A client() that builds a new client on every call.
SvcClient_AlwaysFresh(c) ==
    /\ SvcMayCall(c)
    /\ \E outcome \in NewClientOutcomes :
         IF outcome = "ok"
         THEN svc' = [svc EXCEPT !.calls = @ + 1, !.served = @ + 1,
                                 !.created = @ + 1,
                                 !.got = [@ EXCEPT ![c] = "ok"],
                                      !.cl = [@ EXCEPT ![c] = svc.created + 1]]
         ELSE svc' = [svc EXCEPT !.calls = @ + 1,
                                 !.got = [@ EXCEPT ![c] = outcome],
                                      !.cl = [@ EXCEPT ![c] = 0]]
    /\ UNCHANGED clusterVars /\ UNCHANGED api

\* async fn client(&self):
\*   Some(client) => Ok(client.clone()), None => Ok(new_client(..).await?)
SvcClient(c) ==
    /\ SvcMayCall(c)
    /\ IF svc.client # 0
       THEN svc' = [svc EXCEPT !.calls = @ + 1, !.served = @ + 1,
                               !.got = [@ EXCEPT ![c] = "ok"],
                               !.cl = [@ EXCEPT ![c] = svc.client]]
       ELSE \E outcome \in NewClientOutcomes :
              IF outcome = "ok"
              THEN svc' = [svc EXCEPT !.calls = @ + 1, !.served = @ + 1,
                                      !.created = @ + 1,
                                      !.got = [@ EXCEPT ![c] = "ok"],
                                      !.cl = [@ EXCEPT ![c] = svc.created + 1]]
              ELSE svc' = [svc EXCEPT !.calls = @ + 1,
                                      !.got = [@ EXCEPT ![c] = outcome],
                                      !.cl = [@ EXCEPT ![c] = 0]]
    /\ UNCHANGED clusterVars /\ UNCHANGED api

\* A blocking_kill that looks at the handle without taking it.
SvcKillTake_Peek(c) ==
    /\ SvcMayCall(c)
    /\ svc' = [svc EXCEPT !.calls = @ + 1,
                          !.cpc = [@ EXCEPT ![c] =
                                     IF svc.child = "some" THEN "kill_signal" ELSE "idle"],
                          !.got = [@ EXCEPT ![c] = "killed"],
                          !.cl = [@ EXCEPT ![c] = 0]]
    /\ UNCHANGED clusterVars /\ UNCHANGED api

\* kill() -> blocking_kill: if let Some(mut child) = self.child.lock().unwrap().take()
SvcKillTake(c) ==
    /\ SvcMayCall(c)
    /\ svc' = [svc EXCEPT !.calls = @ + 1,
                          !.child = "none",
                          !.cpc = [@ EXCEPT ![c] =
                                     IF svc.child = "some" THEN "kill_signal" ELSE "idle"],
                          !.got = [@ EXCEPT ![c] = "killed"],
                          !.cl = [@ EXCEPT ![c] = 0]]
    /\ UNCHANGED clusterVars /\ UNCHANGED api

\* { let _ = child.kill(); }   the signal is sent, its result is discarded
SvcKillSignal(c) ==
    /\ svc.pc = "constructed"
    /\ svc.cpc[c] = "kill_signal"
    /\ svc' = [svc EXCEPT !.signals = @ + 1, !.running = FALSE,
                          !.cpc = [@ EXCEPT ![c] = "idle"]]
    /\ UNCHANGED clusterVars /\ UNCHANGED api

\* The handles the drop of the service sends a signal to.
SvcDropSignals == IF svc.child = "some" THEN 1 ELSE 0

\* impl Drop for SpawnedWorkerService: self.blocking_kill(), with the service to
\* itself (&mut self).
SvcDrop ==
    /\ svc.pc = "constructed"
    /\ \A c \in SvcCallers : svc.cpc[c] = "idle"
    /\ svc' = [svc EXCEPT !.pc = "dropped", !.child = "none",
                          !.signals = @ + SvcDropSignals,
                          !.running = IF SvcDropSignals > 0 THEN FALSE ELSE @]
    /\ UNCHANGED clusterVars /\ UNCHANGED api

NextSvc ==
    \/ SvcValidate
    \/ SvcLaunch
    \/ SvcAttachLogger
    \/ SvcWait
    \/ SvcBuild
    \/ \E c \in SvcCallers : SvcClient(c)
    \/ \E c \in SvcCallers : SvcKillTake(c)
    \/ \E c \in SvcCallers : SvcKillSignal(c)
    \/ SvcDrop

\* A worker service is constructed, used by two tasks and dropped.
SpecSvc == InitSvc /\ [][NextSvc]_vars

\* ------------------------------------------------- RegisterApiDefinitionApi
\* (golem-worker-service/src/api/register_api_definition_api.rs)

ApiIds == {"test", "other"}
ApiVersions == {"1.0", "2.0"}
\* Stand-ins for the route lists of a definition.
ApiRoutes == {"routes_a", "routes_b"}
ApiKeys == ApiIds \X ApiVersions
Absent == "absent"

Definition(key, routes) == [id |-> key[1], version |-> key[2], routes |-> routes]

RECURSIVE SetToSeq(_)
SetToSeq(S) ==
    IF S = {} THEN <<>>
    ELSE LET x == CHOOSE y \in S : TRUE IN <<x>> \o SetToSeq(S \ {x})

\* The definition service behind the endpoint (RegisterApiDefinitionDefault over
\* InMemoryRegistry): a store keyed by (id, version).
RegistryRegister(store, key) == IF store[key] # Absent THEN "AlreadyExists" ELSE "ok"
RegistryGet(store, key) == store[key]
RegistryGetAll(store) ==
    SetToSeq({Definition(key, store[key]) : key \in {q \in ApiKeys : store[q] # Absent}})

\* An error mapping that reports every registration error as a bad request.
RegisterApiError_AllBadRequest(reg_error) == 400

\* register_api: the map_err from ApiRegistrationError to the endpoint's error
RegisterApiError(reg_error) ==
    CASE reg_error = "AlreadyExists" -> 409
      [] reg_error = "InternalError" -> 400
      [] reg_error = "AuthenticationError" -> 401

\* A listing that keeps one definition for each id.
GetAllValues_OnePerId(data) ==
    SetToSeq({data[n] : n \in {m \in 1 .. Len(data) :
                                 \A j \in 1 .. (m - 1) : data[j].id # data[m].id}})

\* get_all: data.into_iter().map(|d| d.api_definition.try_into()).collect()
GetAllValues(data) == data

NoRequest == [method |-> "none", key |-> <<"test", "1.0">>, routes |-> "routes_a",
              status |-> 0, body |-> <<>>]

\* A fresh endpoint over an empty registry (make_route).
\*   store:      the registry, (id, version) -> routes or Absent
\*   registered: the definitions whose PUT was answered OK and that have not
\*               been deleted since
\*   before:     the registry as it was when the last request arrived
\*   last:       the last request and its response
InitApi ==
    /\ ParkedCluster
    /\ svc = NoSvc
    /\ api = [pc |-> "serving",
              store |-> [key \in ApiKeys |-> Absent],
              registered |-> {},
              before |-> [key \in ApiKeys |-> Absent],
              last |-> NoRequest]

Respond(method, key, routes, status, body) ==
    [method |-> method, key |-> key, routes |-> routes, status |-> status, body |-> body]

\* PUT /v1/api/definitions (create_or_update)
ApiPut ==
    /\ api.pc = "serving"
    /\ \E key \in ApiKeys, routes \in ApiRoutes, valid \in BOOLEAN :
         LET reg == RegistryRegister(api.store, key)
             stored == [api.store EXCEPT ![key] = routes]
         IN  IF ~valid
             THEN api' = [api EXCEPT !.before = api.store,
                                     !.last = Respond("PUT_INVALID", key, routes, 400, <<>>)]
             ELSE IF reg # "ok"
             THEN api' = [api EXCEPT !.before = api.store,
                                     !.last = Respond("PUT", key, routes,
                                                      RegisterApiError(reg), <<>>)]
             ELSE IF RegistryGet(stored, key) = Absent
             THEN api' = [api EXCEPT !.before = api.store, !.store = stored,
                                     !.last = Respond("PUT", key, routes, 404, <<>>)]
             ELSE api' = [api EXCEPT !.before = api.store, !.store = stored,
                                     !.registered = @ \cup {Definition(key, routes)},
                                     !.last = Respond("PUT", key, routes, 200,
                                                <<Definition(key, RegistryGet(stored, key))>>)]
    /\ UNCHANGED clusterVars /\ UNCHANGED svc

\* GET /v1/api/definitions?api-definition-id=..&version=.. (get)
ApiGet ==
    /\ api.pc = "serving"
    /\ \E key \in ApiKeys :
         LET data == RegistryGet(api.store, key)
         IN  api' = [api EXCEPT !.before = api.store,
                                !.last = Respond("GET", key, "routes_a", 200,
                                           IF data # Absent
                                           THEN <<Definition(key, data)>> ELSE <<>>)]
    /\ UNCHANGED clusterVars /\ UNCHANGED svc

\* DELETE /v1/api/definitions?api-definition-id=..&version=.. (delete)
ApiDelete ==
    /\ api.pc = "serving"
    /\ \E key \in ApiKeys :
         IF RegistryGet(api.store, key) # Absent
         THEN api' = [api EXCEPT !.before = api.store,
                                 !.store = [@ EXCEPT ![key] = Absent],
                                 !.registered = {d \in @ : <<d.id, d.version>> # key},
                                 !.last = Respond("DELETE", key, "routes_a", 200, <<>>)]
         ELSE api' = [api EXCEPT !.before = api.store,
                                 !.last = Respond("DELETE", key, "routes_a", 404, <<>>)]
    /\ UNCHANGED clusterVars /\ UNCHANGED svc

\* GET /v1/api/definitions/all (get_all)
ApiGetAll ==
    /\ api.pc = "serving"
    /\ api' = [api EXCEPT !.before = api.store,
                          !.last = Respond("GET_ALL", <<"test", "1.0">>, "routes_a", 200,
                                           GetAllValues(RegistryGetAll(api.store)))]
    /\ UNCHANGED clusterVars /\ UNCHANGED svc

NextApi ==
    \/ ApiPut
    \/ ApiGet
    \/ ApiDelete
    \/ ApiGetAll

\* Requests are served one after another by one endpoint.
SpecApi == InitApi /\ [][NextApi]_vars

\* ----------------------------------------------------------------- claims

\* Caller c has completed a call and not begun another.
Returned(c) == pc[c] = "idle" /\ op[c] # "none"

\* The step is one of caller c.
Moved(c) == pc'[c] # pc[c] \/ k'[c] # k[c]

\* The call c completed just before its current one.
PrevWas(c, o, index, r) == prev[c] = [op |-> o, arg |-> index, ret |-> r]

\* C1: in every reachable state stopped_indices() lies within [0, size),
\* started_indices() lies within [0, size), and every index of [0, size) is in
\* exactly one of the two views.
C1_ViewsPartition ==
    /\ StoppedIndices \subseteq Members
    /\ StartedIndices \subseteq Members
    /\ \A i \in Members : (i \in StartedIndices) # (i \in StoppedIndices)

\* C1 witness: after stops and a start, one member is stopped, another is
\* started, and one has been restarted.
C1_Witness ==
    /\ StoppedIndices # {}
    /\ StartedIndices # {}
    /\ \E i \in Members : spawned[i] > 1
    /\ \E c \in Callers : Returned(c) /\ op[c] = "start" /\ ret[c] = "ok"

\* C2: stop(i) on an index already in stopped ends at its membership check: no
\* member is killed (no handle taken, no signal sent) and stopped is unchanged.
C2_StopIdempotent ==
    [][\A c \in Callers :
         (pc[c] = "stop_lock" /\ Moved(c) /\ arg[c] \in stopped)
            => /\ pc'[c] = "idle"
               /\ UNCHANGED <<child, signals, spawned, stopped>>]_vars

\* C2 witness: stop(i) has returned twice in a row and member i has received
\* exactly one termination signal.
C2_Witness ==
    \E c \in Callers :
        /\ Returned(c) /\ op[c] = "stop" /\ ret[c] = "ok" /\ InRange(arg[c])
        /\ PrevWas(c, "stop", arg[c], "ok")
        /\ arg[c] \in stopped
        /\ signals[arg[c]] = 1

\* C3: start(i) on an index not in stopped ends at its membership check: no
\* member is killed or spawned and stopped is unchanged.
C3_StartIdempotent ==
    [][\A c \in Callers :
         (pc[c] = "start_check" /\ Moved(c) /\ arg[c] \notin stopped)
            => /\ pc'[c] = "idle"
               /\ UNCHANGED <<child, signals, spawned, stopped>>]_vars

\* C3 witness: start(i) has returned twice in a row on a member never stopped,
\* which still runs its first process.
C3_Witness ==
    \E c \in Callers :
        /\ Returned(c) /\ op[c] = "start" /\ ret[c] = "ok" /\ InRange(arg[c])
        /\ PrevWas(c, "start", arg[c], "ok")
        /\ spawned[arg[c]] = 1 /\ signals[arg[c]] = 0

\* C4: when one caller has run stop(i) and then start(i) and start returned
\* normally, i is not in stopped_indices(), is in started_indices(), and member
\* i has a live, ready process on the ports the member was built with.
C4_StopThenStart ==
    \A c \in Callers :
        (/\ Returned(c) /\ ~dropped
         /\ op[c] = "start" /\ ret[c] = "ok" /\ InRange(arg[c])
         /\ PrevWas(c, "stop", arg[c], "ok"))
            => /\ arg[c] \notin StoppedIndices
               /\ arg[c] \in StartedIndices
               /\ child[arg[c]].some /\ child[arg[c]].ready
               /\ child[arg[c]].http = HttpPort(arg[c])
               /\ child[arg[c]].grpc = GrpcPort(arg[c])

\* C4 witness: stop(i) then start(i) have returned and member i runs its
\* second process.
C4_Witness ==
    \E c \in Callers :
        /\ Returned(c) /\ ~dropped
        /\ op[c] = "start" /\ ret[c] = "ok" /\ InRange(arg[c])
        /\ PrevWas(c, "stop", arg[c], "ok")
        /\ spawned[arg[c]] = 2 /\ signals[arg[c]] = 1

\* C5: when kill_all() has returned no member has a live process, when
\* restart_all() has returned normally every member has a live, ready process,
\* whatever stopped holds; and no step of kill_all or restart_all changes stopped.
C5_KillAllRestartAll ==
    /\ [](\A c \in Callers :
            (Returned(c) /\ ~dropped /\ ret[c] = "ok")
               => /\ op[c] = "kill_all" => \A i \in Members : ~child[i].some
                  /\ op[c] = "restart_all"
                        => \A i \in Members : child[i].some /\ child[i].ready)
    /\ [][\A c \in Callers :
            (pc[c] \in {"kill_all", "restart_all", "restart_all_wait"} /\ Moved(c))
               => stopped' = stopped]_vars

\* C5 witness: kill_all() has returned right after a restart_all() that had
\* brought a member recorded in stopped back to life.
C5_Witness ==
    \E c \in Callers :
        /\ Returned(c) /\ ~dropped /\ op[c] = "kill_all" /\ ret[c] = "ok"
        /\ PrevWas(c, "restart_all", 0, "ok")
        /\ \E i \in Members : i \in stopped /\ spawned[i] = 2 /\ signals[i] = 2
        /\ \E i \in Members : i \notin stopped

\* C6: once the cluster is dropped no member has a live process and every
\* process ever launched has received exactly one termination signal.
C6_DropKillsAll ==
    dropped => \A i \in Members : ~child[i].some /\ signals[i] = spawned[i]

\* C6 witness: a dropped cluster of which one member had been stopped and never
\* restarted (its only process was signalled once, by stop) and another was
\* still running.
C6_Witness ==
    /\ dropped
    /\ \E i \in Members : i \in stopped /\ spawned[i] = 1 /\ signals[i] = 1
    /\ \E i \in Members : i \notin stopped /\ signals[i] = 1

C8_StopOutOfRangeNoEffect ==
    \A c \in Callers :
        (Returned(c) /\ op[c] = "stop" /\ ~InRange(arg[c]))
            => /\ ret[c] = "IndexOutOfBounds"
               /\ lock = "free"
               /\ ~poisoned

\* C9 as stated: a start(index) with index >= size that has returned was
\* reported as an index error.
C9_StartOutOfRangeReported ==
    \A c \in Callers :
        (Returned(c) /\ op[c] = "start" /\ ~InRange(arg[c]))
            => ret[c] = "IndexOutOfBounds"

\* C10: the membership check and the restart of start(i) leave stopped as it
\* is, and a start(i) that ends at its readiness wait reports the timeout and
\* leaves stopped unchanged, with i still in it.
C10_FailedStartKeepsStopped ==
    [][\A c \in Callers :
         /\ (pc[c] \in {"start_check", "start_restart"} /\ Moved(c))
               => stopped' = stopped
         /\ (pc[c] = "start_wait" /\ Moved(c) /\ pc'[c] = "idle")
               => /\ ret'[c] = "StartupTimeout"
                  /\ stopped' = stopped
                  /\ arg[c] \in stopped']_vars

\* C10 witness: start(i) has ended in a startup timeout and i is in stopped.
C10_Witness ==
    \E c \in Callers :
        /\ Returned(c) /\ op[c] = "start" /\ ret[c] = "StartupTimeout"
        /\ arg[c] \in stopped

\* C11: once new(n, ...) has returned, size() is n, and stays n whatever calls
\* follow; and until the first call is made stopped_indices() is empty and
\* started_indices() holds all n indices.
C11_SizeAfterNew ==
    ctor.pc = "done"
        => /\ size = ctor.size
           /\ (\A c \in Callers : op[c] = "none")
                 => /\ StoppedIndices = {}
                    /\ StartedIndices = 0 .. (ctor.size - 1)
                    /\ Cardinality(StartedIndices) + Cardinality(StoppedIndices)
                          = ctor.size

\* C11 witness: a cluster built with the largest size, on which stop and then
\* restart_all have returned, still of that size.
C11_Witness ==
    /\ ctor.pc = "done" /\ ctor.size = MaxSize /\ size = MaxSize
    /\ stopped # {}
    /\ \E c \in Callers :
          Returned(c) /\ op[c] = "restart_all" /\ ret[c] = "ok"

\* C11 witness for the empty cluster: new(0, ...) has returned.
C11_WitnessEmpty == ctor.pc = "done" /\ ctor.size = 0 /\ size = 0

\* C12 as stated: in a constructed cluster member i has http_port =
\* base_http_port + i and grpc_port = base_grpc_port + i in 16-bit arithmetic,
\* and no port number belongs to two different members.
C12_PortsByIndexAndDistinct ==
    ctor.pc = "done"
        => /\ \A i \in Members :
                /\ HttpPort(i) = (ctor.base_http_port + i) % 65536
                /\ GrpcPort(i) = (ctor.base_grpc_port + i) % 65536
           /\ \A i, j \in Members :
                i # j => {HttpPort(i), GrpcPort(i)} \cap {HttpPort(j), GrpcPort(j)} = {}

\* C13: over any number of kill() calls and the drop, in any interleaving, the
\* worker-service process is sent at most one termination signal; once a kill
\* has run the handle is consumed, and every kill ends without an error.
C13_KillAtMostOnce ==
    /\ svc.signals <= 1
    /\ svc.signals <= svc.launched
    /\ ((\E c \in SvcCallers : svc.got[c] = "killed") \/ svc.pc = "dropped")
          => svc.child = "none"
    /\ (svc.pc = "dropped" /\ svc.launched = 1) => svc.signals = 1 /\ ~svc.running

\* Both tasks have called kill(), the service has been dropped, and one signal
\* was sent.
C13_Witness ==
    /\ svc.pc = "dropped"
    /\ \A c \in SvcCallers : svc.got[c] = "killed"
    /\ svc.signals = 1

\* C14: with shared_client the one client made at construction is the client
\* every client() call returns and no other is made; without it no client is
\* made at construction and each successful client() call makes a new one.
C14_ClientPolicy ==
    svc.pc \in {"constructed", "dropped"}
        => IF svc.shared_client
           THEN /\ svc.at_spawn = 1 /\ svc.created = 1 /\ svc.client = 1
                /\ \A c \in SvcCallers : svc.got[c] = "ok" => svc.cl[c] = 1
           ELSE /\ svc.at_spawn = 0 /\ svc.client = 0
                /\ svc.created = svc.served
                /\ \A c \in SvcCallers : svc.got[c] = "ok" => svc.cl[c] \in 1 .. svc.created
                /\ \A c, d \in SvcCallers :
                      (c # d /\ svc.got[c] = "ok" /\ svc.got[d] = "ok")
                          => svc.cl[c] # svc.cl[d]

\* A shared client has been handed to both tasks.
C14_WitnessShared ==
    /\ svc.shared_client
    /\ \A c \in SvcCallers : svc.got[c] = "ok" /\ svc.cl[c] = 1
    /\ svc.served = MaxSvcCalls

\* Without a shared client both tasks hold clients of their own.
C14_Witness ==
    /\ ~svc.shared_client
    /\ \A c \in SvcCallers : svc.got[c] = "ok"
    /\ svc.created = MaxSvcCalls

\* C15: a failure to construct a client never aborts the construction of the
\* worker service; it only ever is the result of a client() call.
C15_ClientFailureNeverAborts ==
    svc.pc = "failed" => svc.error # "ClientConstructionError"

\* C16: new_base runs validate, launch, attach, wait and (only with
\* shared_client) client in this order; a failing step is the last step run; no
\* process is launched for a missing executable; and the service exists only
\* after the readiness wait succeeded.
SpawnSteps == <<"validate", "launch", "attach", "wait", "client">>

C16_SpawnStepOrder ==
    /\ Len(svc.steps) <= Len(SpawnSteps)
    /\ \A n \in 1 .. Len(svc.steps) : svc.steps[n] = SpawnSteps[n]
    /\ ("client" \in {svc.steps[n] : n \in 1 .. Len(svc.steps)}) => svc.shared_client
    /\ svc.launched = (IF Len(svc.steps) >= 2 /\ ~(svc.pc = "failed" /\ Len(svc.steps) = 2)
                       THEN 1 ELSE 0)
    /\ svc.logger = (Len(svc.steps) >= 3)
    /\ ~svc.exe_exists => svc.launched = 0 /\ svc.pc \in {"validate", "failed"}
    /\ svc.pc \in {"constructed", "dropped"}
          => /\ svc.ready
             /\ Len(svc.steps) = (IF svc.shared_client THEN 5 ELSE 4)
    /\ svc.pc = "failed"
          => svc.error = (CASE Len(svc.steps) = 1 -> "ConfigurationError"
                            [] Len(svc.steps) = 2 -> "SpawnFailure"
                            [] Len(svc.steps) = 4 -> "StartupTimeout"
                            [] Len(svc.steps) = 5 -> "ClientConstructionError"
                            [] OTHER -> "unreachable")

\* The readiness wait timed out: construction stopped there.
C16_Witness ==
    /\ svc.pc = "failed"
    /\ svc.error = "StartupTimeout"
    /\ svc.steps = <<"validate", "launch", "attach", "wait">>

\* A missing executable stopped construction at the first step.
C16_WitnessMissing ==
    /\ svc.pc = "failed"
    /\ ~svc.exe_exists
    /\ svc.steps = <<"validate">>

\* C17: a PUT of a definition whose (id, version) is not stored is answered OK
\* and stores it; a PUT of one whose (id, version) is stored is answered 409
\* CONFLICT and leaves the stored definitions as they were.
C17_PutConflict ==
    api.pc = "serving" /\ api.last.method = "PUT"
        => IF api.before[api.last.key] = Absent
           THEN /\ api.last.status = 200
                /\ api.store = [api.before EXCEPT ![api.last.key] = api.last.routes]
           ELSE /\ api.last.status = 409
                /\ api.store = api.before

\* A stored definition was PUT again, with other routes, and was refused.
C17_Witness ==
    /\ api.pc = "serving"
    /\ api.last.method = "PUT"
    /\ api.last.status = 409
    /\ api.before[api.last.key] \notin {Absent, api.last.routes}

\* C18: the list GET /all returns has one entry for each (id, version) whose
\* registration succeeded, versions of one id included, and no other entry.
C18_GetAllOnePerPair ==
    api.pc = "serving" /\ api.last.method = "GET_ALL"
        => /\ api.last.status = 200
           /\ Len(api.last.body) = Cardinality(api.registered)
           /\ {api.last.body[n] : n \in 1 .. Len(api.last.body)} = api.registered

\* Two versions of the id "test" are registered and GET /all lists both.
C18_Witness ==
    /\ api.pc = "serving"
    /\ api.last.method = "GET_ALL"
    /\ Len(api.last.body) = 2
    /\ \A n \in 1 .. 2 : api.last.body[n].id = "test"
    /\ api.last.body[1].version # api.last.body[2].version

\* C19 (as stated): whenever stop(i) has returned for a valid i, i is in stopped
\* and member i's process is not running.
C19_StopLeavesMemberDown ==
    \A c \in Callers :
        (Returned(c) /\ op[c] = "stop" /\ ret[c] = "ok" /\ InRange(arg[c]))
            => /\ arg[c] \in stopped
               /\ ~child[arg[c]].some

\* C19 (amended): when stop(i) returns normally for a valid i, i is in stopped;
\* member i's process is not running if this call found i outside stopped and
\* so killed it. A stop that finds i in stopped changes nothing, whether or not
\* restart_all has brought member i back since.
C19_StopPostcondition ==
    [][\A c \in Callers :
         (op[c] = "stop" /\ Moved(c) /\ pc'[c] = "idle" /\ ret'[c] = "ok"
            /\ InRange(arg[c]))
            => /\ arg[c] \in stopped'
               /\ pc[c] = "stop_insert" => ~child'[arg[c]].some
               /\ pc[c] = "stop_lock" => UNCHANGED <<child, signals, spawned, stopped>>]_vars

\* stop(i), restart_all, stop(i): the last stop has returned, i is in stopped
\* and member i is running.
C19_Witness ==
    \E c \in Callers :
        /\ Returned(c) /\ op[c] = "stop" /\ ret[c] = "ok" /\ InRange(arg[c])
        /\ PrevWas(c, "restart_all", 0, "ok")
        /\ arg[c] \in stopped
        /\ child[arg[c]].some /\ child[arg[c]].ready

\* C20: when concurrent stop and start calls on different valid indices have
\* all returned, the stopped set and every member's process (and the signals
\* and launches it has seen) are what running the calls one after another, in
\* either order, produces; and every step of a call touches only the member
\* the call names.
C20_Linearizable ==
    /\ [](lin.taken /\ (\A c \in Callers : pc[c] = "idle")
            => \A c, d \in Callers :
                  c # d => ClusterNow = SeqCall(SeqCall(lin.start, c), d))
    /\ [][lin.taken
            => \A c \in Callers :
                  Moved(c) => \A i \in Members \ {arg[c]} :
                                 /\ child'[i] = child[i]
                                 /\ signals'[i] = signals[i]
                                 /\ spawned'[i] = spawned[i]]_vars

\* A stop that killed its member and a start that restarted its member have
\* both returned.
C20_Witness ==
    /\ lin.taken
    /\ \A c \in Callers : pc[c] = "idle" /\ ret[c] = "ok"
    /\ \E c, d \in Callers :
         /\ op[c] = "stop" /\ op[d] = "start"
         /\ arg[c] \notin lin.start.stopped /\ arg[c] \in stopped
         /\ arg[d] \in lin.start.stopped /\ arg[d] \notin stopped
         /\ lin.start.child[arg[c]].some
         /\ child[arg[d]].ready

\* C21: a construction that fails after the process was launched (readiness
\* wait or shared-client creation fails) leaves no process running: the
\* launched process has been sent its termination signal by the time the
\* failure reaches the caller.
C21_FailedSpawnLeavesNoProcess ==
    (svc.pc = "failed" /\ svc.launched > 0)
        => /\ ~svc.running
           /\ svc.signals = svc.launched

====
